---- MODULE Spec2Model ----
(***************************************************************************)
(* Model of src/main.go: an in-memory blockchain served over HTTP.         *)
(*                                                                         *)
(* The program keeps one package-level slice, Blockchain, that is read and *)
(* written without any lock by                                             *)
(*   - the genesis goroutine started in main (lines 41-46), and            *)
(*   - one goroutine per HTTP request (net/http), running WriteBlockchain  *)
(*     (lines 141-165) or GetBlockchain (lines 130-138).                   *)
(* A Go slice is a header (array pointer, len, cap) over a backing array.  *)
(* The model keeps the headers and the arrays apart (Blockchain, heap), so *)
(* that two appends through the same header hit the same array cell.       *)
(* Granularity: every load of the Blockchain header, every store of it,    *)
(* and every load or store of one array cell is one step.  Word-level      *)
(* tearing of a header or of a Block inside one such access is not         *)
(* modelled.                                                               *)
(*                                                                         *)
(* Strings are sequences of Unicode code points.                           *)
(***************************************************************************)
EXTENDS Integers, Sequences, FiniteSets, TLC

\* ------------------------------------------------------------- bounds
MaxRequests == 4        \* requests the model lets the server receive
MaxTime == 1            \* last reading of the clock
Writers == {"w1", "w2"} \* request goroutines that may overlap
Payloads == {100}       \* values of Message.Data a request may carry

\* ------------------------------------------------------- Go's int, string(int)
\* Go's int is 32 or 64 bits wide by platform; the model takes the 32-bit
\* build, the widest TLC's integers hold.  Addition wraps around.
IntMax == 2147483647
IntMin == (-IntMax) - 1
Inc(x) == IF x = IntMax THEN IntMin ELSE x + 1

\* string(i) for an integer i is the UTF-8 text of the code point i, and
\* U+FFFD when i is no valid code point (negative, a surrogate, too large).
RuneError == 65533
MaxRune == 1114111
SurrogateMin == 55296
SurrogateMax == 57343
IntToString(i) ==
    IF i < 0 \/ i > MaxRune \/ (SurrogateMin <= i /\ i <= SurrogateMax)
    THEN <<RuneError>>
    ELSE <<i>>

\* decimal digits of a natural number, as code points
RECURSIVE Itoa(_)
Itoa(n) == IF n < 10 THEN <<48 + n>> ELSE Itoa(n \div 10) \o <<48 + (n % 10)>>

\* time.Time.String() of the clock reading t.  The layout
\* "2006-01-02 15:04:05.999999999 -0700 MST" is cut down to the reading's
\* decimal digits: distinct readings give distinct strings, equal readings
\* equal strings.
TimeString(t) == Itoa(t)

\* hex.EncodeToString(sha256(record)).  SHA-256 is idealised as collision
\* free: the digest is the record behind a tag no code point equals, so it is
\* never empty and two records share a digest only when they are equal.
Sha256Hex(record) == <<-1>> \o record

\* ------------------------------------------------------------- Block
Block(i, t, d, h, p) ==
    [Index |-> i, Timestamp |-> t, Data |-> d, Hash |-> h, PrevHash |-> p]

\* the zero value of Block, what a fresh array cell holds
ZeroBlock == Block(0, <<>>, 0, <<>>, <<>>)

\* the genesis block of line 43: Block{0, t.String(), 0, "", ""}
MutGenesisBlock(t) == Block(1, TimeString(t), 0, <<>>, <<>>)
GenesisBlock(t) == Block(0, TimeString(t), 0, <<>>, <<>>)

MutGenerateHash(block) ==
    Sha256Hex(IntToString(block.Index) \o block.Timestamp
              \o IntToString(block.Data) \o block.PrevHash \o block.Hash)
GenerateHash(block) ==
    Sha256Hex(IntToString(block.Index) \o block.Timestamp
              \o IntToString(block.Data) \o block.PrevHash)

\* t is the reading time.Now() returned
MutGenerateBlock(prevBlock, Data, t) ==
    LET newBlock == Block(Inc(prevBlock.Index), TimeString(t), Data, <<>>, <<>>)
    IN  [newBlock EXCEPT !.Hash = GenerateHash(newBlock),
                         !.PrevHash = prevBlock.Hash]
MutGenerateBlockIndex(prevBlock, Data, t) ==
    LET newBlock == Block(prevBlock.Index, TimeString(t), Data, <<>>,
                          prevBlock.Hash)
    IN  [newBlock EXCEPT !.Hash = GenerateHash(newBlock)]
GenerateBlock(prevBlock, Data, t) ==
    LET newBlock == Block(Inc(prevBlock.Index), TimeString(t), Data, <<>>,
                          prevBlock.Hash)
    IN  [newBlock EXCEPT !.Hash = GenerateHash(newBlock)]

MutValidateBlock(prevBlock, newBlock) ==
    IF Inc(prevBlock.Index) # newBlock.Index THEN FALSE
    ELSE IF prevBlock.Hash # newBlock.PrevHash THEN FALSE
    ELSE TRUE
ValidateBlock(prevBlock, newBlock) ==
    IF Inc(prevBlock.Index) # newBlock.Index THEN FALSE
    ELSE IF prevBlock.Hash # newBlock.PrevHash THEN FALSE
    ELSE IF GenerateHash(newBlock) # newBlock.Hash THEN FALSE
    ELSE TRUE

\* ------------------------------------------------------------- slices
Slice(a, l, c) == [arr |-> a, len |-> l, cap |-> c]
NilSlice == Slice(0, 0, 0)

\* capacity growslice gives a slice of 64-byte elements: the doubled old
\* capacity, or the needed one when that is larger (1, 2, 4, 8, ...)
GrowCap(oldCap, needed) == IF needed > 2 * oldCap THEN needed ELSE 2 * oldCap

\* The allocator: a freed address holds <<>> and is handed out again, lowest
\* first; with none free the heap grows by one address.
NewAddr(h) ==
    IF \E a \in 1..Len(h) : h[a] = <<>>
    THEN CHOOSE a \in 1..Len(h) : h[a] = <<>> /\ \A b \in 1..(a - 1) : h[b] # <<>>
    ELSE Len(h) + 1

Store(h, a, array) == IF a <= Len(h) THEN [h EXCEPT ![a] = array] ELSE Append(h, array)

\* append(s, b) on heap h: the heap after it and the slice it returns.
\* With room left the block is stored in s's own array, at cell len; with no
\* room a new array is allocated and the old cells are copied into it.
AppendHeap(h, s, b) ==
    IF s.len < s.cap
    THEN [h EXCEPT ![s.arr][s.len + 1] = b]
    ELSE Store(h, NewAddr(h), [i \in 1..GrowCap(s.cap, s.len + 1) |->
                                  IF i <= s.len THEN h[s.arr][i]
                                  ELSE IF i = s.len + 1 THEN b ELSE ZeroBlock])

AppendSlice(h, s, b) ==
    IF s.len < s.cap
    THEN Slice(s.arr, s.len + 1, s.cap)
    ELSE Slice(NewAddr(h), s.len + 1, GrowCap(s.cap, s.len + 1))

\* The garbage collector: an array no slice points to is freed, and free
\* addresses at the end of the heap are given back.
RECURSIVE Trim(_)
Trim(h) == IF h # <<>> /\ h[Len(h)] = <<>> THEN Trim(SubSeq(h, 1, Len(h) - 1)) ELSE h
Collect(h, roots) == Trim([a \in 1..Len(h) |-> IF a \in roots THEN h[a] ELSE <<>>])

\* ------------------------------------------------------------- state
VARIABLES
    Blockchain,  \* the header of the package-level slice
    heap,        \* the backing arrays, by address 1..Len(heap)
    now,         \* the clock
    serving,     \* ListenAndServe is accepting requests
    gpc,         \* the genesis goroutine's position
    genesisBlock,\* its local block
    gnew,        \* its local slices: the header it read, then append's result
    pc,          \* each request goroutine's position in WriteBlockchain
    m,           \* its decoded Message.Data
    tailN,       \* its last reading of len(Blockchain)
    newBlock,    \* its candidate block
    valid,       \* what ValidateBlock returned to it
    newBlocks,   \* its local slices: the header it read, then newBlockchain
    replaced,    \* whether its ReplaceChain assigned Blockchain
    resp,        \* the outcome of each goroutine's last finished request
    nreq,        \* requests received so far
    fn,          \* the function-level harness (SpecFn)
    reader,      \* the goroutine of a GET request, running GetBlockchain
    sent         \* history: the payloads decoded so far, in order (SpecSeq)

vars == <<Blockchain, heap, now, serving, gpc, genesisBlock, gnew, pc, m,
          tailN, newBlock, valid, newBlocks, replaced, resp, nreq, fn, reader, sent>>

gvars == <<gpc, genesisBlock, gnew>>
wlocals == <<m, tailN, newBlock, valid, newBlocks, replaced>>

\* the arrays some slice points to
Roots ==
    {Blockchain.arr, gnew.arr, reader.hdr.arr} \cup {newBlocks[w].arr : w \in Writers}

\* the chain a header denotes on the current heap
ChainOf(s) == [i \in 1..s.len |-> heap[s.arr][i]]
Chain == ChainOf(Blockchain)

NoResp == [status |-> -1, block |-> ZeroBlock, valid |-> FALSE, replaced |-> FALSE]
FnIdle == [pc |-> "off"]
ReaderIdle == [pc |-> "idle", hdr |-> NilSlice, got |-> <<>>]

\* readings time.Now() may return: the clock does not run backwards
Readings == {t \in now..MaxTime : t <= now + 1}

Init ==
    /\ Blockchain = NilSlice
    /\ heap = <<>>
    /\ now = 0
    /\ serving = FALSE
    /\ gpc = "make"
    /\ genesisBlock = ZeroBlock
    /\ gnew = NilSlice
    /\ pc = [w \in Writers |-> "idle"]
    /\ m = [w \in Writers |-> 0]
    /\ tailN = [w \in Writers |-> 0]
    /\ newBlock = [w \in Writers |-> ZeroBlock]
    /\ valid = [w \in Writers |-> FALSE]
    /\ newBlocks = [w \in Writers |-> NilSlice]
    /\ replaced = [w \in Writers |-> FALSE]
    /\ resp = [w \in Writers |-> NoResp]
    /\ nreq = 0
    /\ fn = FnIdle
    /\ reader = ReaderIdle
    /\ sent = <<>>

\* ------------------------------------------------------------- main
\* InitServer: from here on requests are served
ListenAndServe ==
    /\ ~serving
    /\ serving' = TRUE
    /\ UNCHANGED <<Blockchain, heap, now, gvars, pc, wlocals, resp, nreq, fn, reader, sent>>

\* the genesis goroutine: t := time.Now(); genesisBlock := Block{0, t, 0, "", ""}
GenesisMake ==
    /\ gpc = "make"
    /\ \E t \in Readings :
          /\ now' = t
          /\ genesisBlock' = GenesisBlock(t)
    /\ gpc' = "read"
    /\ UNCHANGED <<Blockchain, heap, serving, gnew, pc, wlocals, resp, nreq, fn, reader, sent>>

\* append(Blockchain, genesisBlock): the load of Blockchain
GenesisRead ==
    /\ gpc = "read"
    /\ gnew' = Blockchain
    /\ gpc' = "append"
    /\ UNCHANGED <<Blockchain, heap, now, serving, genesisBlock, pc, wlocals,
                   resp, nreq, fn, reader, sent>>

\* append(Blockchain, genesisBlock): the store of the block
GenesisAppend ==
    /\ gpc = "append"
    /\ gnew' = AppendSlice(heap, gnew, genesisBlock)
    /\ gpc' = "set"
    /\ UNCHANGED <<Blockchain, now, serving, genesisBlock, pc, wlocals, resp,
                   nreq, fn, reader, sent>>
    /\ heap' = Collect(AppendHeap(heap, gnew, genesisBlock), Roots')

\* Blockchain = <the result of append>
GenesisSet ==
    /\ gpc = "set"
    /\ Blockchain' = gnew
    /\ gpc' = "done"
    /\ gnew' = NilSlice
    /\ UNCHANGED <<now, serving, genesisBlock, pc, wlocals, resp, nreq, fn, reader, sent>>
    /\ heap' = Collect(heap, Roots')

\* ------------------------------------------------------------- WriteBlockchain
\* a POST arrives and its body decodes into Message{Data: d} (lines 142-148)
Receive(w) ==
    /\ serving
    /\ pc[w] = "idle"
    /\ nreq < MaxRequests
    /\ \E d \in Payloads : m' = [m EXCEPT ![w] = d]
    /\ nreq' = nreq + 1
    /\ pc' = [pc EXCEPT ![w] = "tail_len"]
    /\ resp' = [resp EXCEPT ![w] = NoResp]
    /\ UNCHANGED <<Blockchain, heap, now, serving, gvars, tailN, newBlock,
                   valid, newBlocks, replaced, fn, reader, sent>>

\* the answer of line 146: http.StatusBadRequest
MutBadRequest == [NoResp EXCEPT !.status = 201]
BadRequest == [NoResp EXCEPT !.status = 400]

\* a POST arrives whose body does not decode: 400, and return (lines 145-148)
DecodeError(w) ==
    /\ serving
    /\ pc[w] = "idle"
    /\ nreq < MaxRequests
    /\ nreq' = nreq + 1
    /\ resp' = [resp EXCEPT ![w] = BadRequest]
    /\ UNCHANGED <<Blockchain, heap, now, serving, gvars, pc, wlocals, fn, reader, sent>>

\* the request ends: its locals die with the handler's frame
Return(w, r) ==
    /\ resp' = [resp EXCEPT ![w] = r]
    /\ pc' = [pc EXCEPT ![w] = "idle"]
    /\ m' = [m EXCEPT ![w] = 0]
    /\ tailN' = [tailN EXCEPT ![w] = 0]
    /\ newBlock' = [newBlock EXCEPT ![w] = ZeroBlock]
    /\ valid' = [valid EXCEPT ![w] = FALSE]
    /\ newBlocks' = [newBlocks EXCEPT ![w] = NilSlice]
    /\ replaced' = [replaced EXCEPT ![w] = FALSE]

\* the index expression Blockchain[n-1] panics: index out of range.  net/http
\* recovers the panic and drops the connection; the caller gets no response.
Aborted == [NoResp EXCEPT !.status = 0]
OutOfRange(n) == n - 1 < 0 \/ n - 1 >= Blockchain.len

\* line 152, len(Blockchain)
TailLen(w) ==
    /\ pc[w] = "tail_len"
    /\ tailN' = [tailN EXCEPT ![w] = Blockchain.len]
    /\ pc' = [pc EXCEPT ![w] = "tail_idx"]
    /\ UNCHANGED <<Blockchain, heap, now, serving, gvars, m, newBlock, valid,
                   newBlocks, replaced, resp, nreq, fn, reader, sent>>

\* line 152, Blockchain[n-1] and GenerateBlock
TailIndex(w) ==
    /\ pc[w] = "tail_idx"
    /\ ~OutOfRange(tailN[w])
    /\ \E t \in Readings :
          /\ now' = t
          /\ newBlock' = [newBlock EXCEPT ![w] =
                 GenerateBlock(heap[Blockchain.arr][tailN[w]], m[w], t)]
    /\ pc' = [pc EXCEPT ![w] = "val_len"]
    /\ UNCHANGED <<Blockchain, heap, serving, gvars, m, tailN, valid,
                   newBlocks, replaced, resp, nreq, fn, reader, sent>>

TailPanic(w) ==
    /\ pc[w] = "tail_idx"
    /\ OutOfRange(tailN[w])
    /\ Return(w, Aborted)
    /\ UNCHANGED <<Blockchain, now, serving, gvars, nreq, fn, reader, sent>>
    /\ heap' = Collect(heap, Roots')

\* line 158, len(Blockchain)
ValidateLen(w) ==
    /\ pc[w] = "val_len"
    /\ tailN' = [tailN EXCEPT ![w] = Blockchain.len]
    /\ pc' = [pc EXCEPT ![w] = "val_idx"]
    /\ UNCHANGED <<Blockchain, heap, now, serving, gvars, m, newBlock, valid,
                   newBlocks, replaced, resp, nreq, fn, reader, sent>>

\* line 158, Blockchain[n-1] and ValidateBlock
ValidateIndex(w) ==
    /\ pc[w] = "val_idx"
    /\ ~OutOfRange(tailN[w])
    /\ LET ok == ValidateBlock(heap[Blockchain.arr][tailN[w]], newBlock[w])
       IN  /\ valid' = [valid EXCEPT ![w] = ok]
           /\ pc' = [pc EXCEPT ![w] = IF ok THEN "append_read" ELSE "respond"]
    /\ UNCHANGED <<Blockchain, heap, now, serving, gvars, m, tailN, newBlock,
                   newBlocks, replaced, resp, nreq, fn, reader, sent>>

ValidatePanic(w) ==
    /\ pc[w] = "val_idx"
    /\ OutOfRange(tailN[w])
    /\ Return(w, Aborted)
    /\ UNCHANGED <<Blockchain, now, serving, gvars, nreq, fn, reader, sent>>
    /\ heap' = Collect(heap, Roots')

\* line 159, append(Blockchain, newBlock): the load of Blockchain
AppendRead(w) ==
    /\ pc[w] = "append_read"
    /\ newBlocks' = [newBlocks EXCEPT ![w] = Blockchain]
    /\ pc' = [pc EXCEPT ![w] = "append_write"]
    /\ UNCHANGED <<Blockchain, heap, now, serving, gvars, m, tailN, newBlock,
                   valid, replaced, resp, nreq, fn, reader, sent>>

\* line 159, append(Blockchain, newBlock): the store of the block
AppendWrite(w) ==
    /\ pc[w] = "append_write"
    /\ newBlocks' = [newBlocks EXCEPT ![w] =
                        AppendSlice(heap, newBlocks[w], newBlock[w])]
    /\ pc' = [pc EXCEPT ![w] = "replace_len"]
    /\ UNCHANGED <<Blockchain, now, serving, gvars, m, tailN, newBlock, valid,
                   replaced, resp, nreq, fn, reader, sent>>
    /\ heap' = Collect(AppendHeap(heap, newBlocks[w], newBlock[w]), Roots')

\* ReplaceChain, line 92: the comparison of the lengths
MutLongerThan(newLen, curLen) == newLen >= curLen
MutLongerByTwo(newLen, curLen) == newLen > curLen + 1
MutShorterThan(newLen, curLen) == newLen < curLen
LongerThan(newLen, curLen) == newLen > curLen

ReplaceChainLen(w) ==
    /\ pc[w] = "replace_len"
    /\ pc' = [pc EXCEPT ![w] =
                IF LongerThan(newBlocks[w].len, Blockchain.len)
                THEN "replace_set" ELSE "respond"]
    /\ UNCHANGED <<Blockchain, heap, now, serving, gvars, wlocals, resp, nreq, fn, reader, sent>>

\* ReplaceChain, line 93: Blockchain = newBlocks
ReplaceChainSet(w) ==
    /\ pc[w] = "replace_set"
    /\ Blockchain' = newBlocks[w]
    /\ replaced' = [replaced EXCEPT ![w] = TRUE]
    /\ pc' = [pc EXCEPT ![w] = "respond"]
    /\ UNCHANGED <<now, serving, gvars, m, tailN, newBlock, valid,
                   newBlocks, resp, nreq, fn, reader, sent>>
    /\ heap' = Collect(heap, Roots')

\* line 164: RespondWithJSON(w, r, http.StatusCreated, newBlock)
Respond(w) ==
    /\ pc[w] = "respond"
    /\ Return(w, [status |-> 201, block |-> newBlock[w], valid |-> valid[w],
                  replaced |-> replaced[w]])
    /\ UNCHANGED <<Blockchain, now, serving, gvars, nreq, fn, reader, sent>>
    /\ heap' = Collect(heap, Roots')

WriteBlockchain(w) ==
    \/ Receive(w)
    \/ DecodeError(w)
    \/ TailLen(w)
    \/ TailIndex(w)
    \/ TailPanic(w)
    \/ ValidateLen(w)
    \/ ValidateIndex(w)
    \/ ValidatePanic(w)
    \/ AppendRead(w)
    \/ AppendWrite(w)
    \/ ReplaceChainLen(w)
    \/ ReplaceChainSet(w)
    \/ Respond(w)

Next ==
    \/ ListenAndServe
    \/ GenesisMake
    \/ GenesisRead
    \/ GenesisAppend
    \/ GenesisSet
    \/ \E w \in Writers : WriteBlockchain(w)

Spec == Init /\ [][Next]_vars

\* ------------------------------------------------------------- GetBlockchain
\* One GET request, served while write requests run.  json.MarshalIndent is
\* handed the header of Blockchain as it is at the call (line 131) and then
\* reads the cells of that header's array one after the other.
GetLoad ==
    /\ serving
    /\ reader.pc = "idle"
    /\ reader' = [pc |-> "marshal", hdr |-> Blockchain, got |-> <<>>]
    /\ UNCHANGED <<Blockchain, heap, now, serving, gvars, pc, wlocals, resp,
                   nreq, fn, sent>>

GetCell ==
    /\ reader.pc = "marshal"
    /\ Len(reader.got) < reader.hdr.len
    /\ reader' = [reader EXCEPT !.got =
                      Append(reader.got, heap[reader.hdr.arr][Len(reader.got) + 1])]
    /\ UNCHANGED <<Blockchain, heap, now, serving, gvars, pc, wlocals, resp,
                   nreq, fn, sent>>

\* line 137: the marshalled blocks are written to the response
GetRespond ==
    /\ reader.pc = "marshal"
    /\ Len(reader.got) = reader.hdr.len
    /\ reader' = [reader EXCEPT !.pc = "done", !.hdr = NilSlice]
    /\ UNCHANGED <<Blockchain, now, serving, gvars, pc, wlocals, resp, nreq,
                   fn, sent>>
    /\ heap' = Collect(heap, Roots')

NextRead ==
    \/ Next
    \/ GetLoad
    \/ GetCell
    \/ GetRespond

SpecRead == Init /\ [][NextRead]_vars

\* The GET request beside the genesis goroutine and the requests of one
\* writing goroutine.  With one writer the chain never gets shorter, so the
\* index expression of line 158 is in range whenever that of line 152 was.
OneWriter == CHOOSE w \in Writers : TRUE

NextGet ==
    \/ ListenAndServe
    \/ GenesisMake
    \/ GenesisRead
    \/ GenesisAppend
    \/ GenesisSet
    \/ Receive(OneWriter)
    \/ DecodeError(OneWriter)
    \/ TailLen(OneWriter)
    \/ TailIndex(OneWriter)
    \/ TailPanic(OneWriter)
    \/ ValidateLen(OneWriter)
    \/ ValidateIndex(OneWriter)
    \/ AppendRead(OneWriter)
    \/ AppendWrite(OneWriter)
    \/ ReplaceChainLen(OneWriter)
    \/ ReplaceChainSet(OneWriter)
    \/ Respond(OneWriter)
    \/ GetLoad
    \/ GetCell
    \/ GetRespond

SpecGet == Init /\ [][NextGet]_vars

\* ------------------------------------------------------------- one at a time
\* The same handlers with the write requests served one after the other: a
\* request is received only when the genesis block is in the chain and no
\* other request is running.  The payloads decoded are logged in sent.
SeqPayloads == {100, -1, 7}
AllIdle == \A v \in Writers : pc[v] = "idle"

ReceiveSeq(w) ==
    /\ serving
    /\ gpc = "done"
    /\ AllIdle
    /\ nreq < MaxRequests
    /\ \E d \in SeqPayloads :
          /\ m' = [m EXCEPT ![w] = d]
          /\ sent' = Append(sent, d)
    /\ nreq' = nreq + 1
    /\ pc' = [pc EXCEPT ![w] = "tail_len"]
    /\ resp' = [resp EXCEPT ![w] = NoResp]
    /\ UNCHANGED <<Blockchain, heap, now, serving, gvars, tailN, newBlock,
                   valid, newBlocks, replaced, fn, reader>>

DecodeErrorSeq(w) ==
    /\ gpc = "done"
    /\ AllIdle
    /\ DecodeError(w)

WriteBlockchainSeq(w) ==
    \/ ReceiveSeq(w)
    \/ DecodeErrorSeq(w)
    \/ TailLen(w)
    \/ TailIndex(w)
    \/ ValidateLen(w)
    \/ ValidateIndex(w)
    \/ AppendRead(w)
    \/ AppendWrite(w)
    \/ ReplaceChainLen(w)
    \/ ReplaceChainSet(w)
    \/ Respond(w)

NextSeq ==
    \/ ListenAndServe
    \/ GenesisMake
    \/ GenesisRead
    \/ GenesisAppend
    \/ GenesisSet
    \/ \E w \in Writers : WriteBlockchainSeq(w)

SpecSeq == Init /\ [][NextSeq]_vars

\* ------------------------------------------------------------- functions
\* GenerateBlock and ValidateBlock called directly, on arguments drawn from
\* bounded sets: a predecessor, a payload, a clock reading; then one field of
\* a block that validated is changed and the block is validated again.
mainvars == <<Blockchain, heap, now, serving, gpc, genesisBlock, gnew, pc, m,
              tailN, newBlock, valid, newBlocks, replaced, resp, nreq,
              reader, sent>>

FnInts == {0, 1, 100, -1, -2, RuneError, IntMax}
FnHashes == {<<>>, Sha256Hex(<<0, 48, 0>>), Sha256Hex(<<1, 48, 100>>)}
FnPrevs == {Block(i, TimeString(0), 0, h, <<>>) : i \in {0, 1, -1, IntMax}, h \in FnHashes}

FnState(c, p, b, o, r, f) ==
    [pc |-> c, prev |-> p, block |-> b, orig |-> o, ok |-> r, field |-> f,
     data |-> 0, digest |-> <<>>, digest2 |-> <<>>]

InitFn ==
    /\ Blockchain = NilSlice
    /\ heap = <<>>
    /\ now = 0
    /\ serving = FALSE
    /\ gpc = "make"
    /\ genesisBlock = ZeroBlock
    /\ gnew = NilSlice
    /\ pc = [w \in Writers |-> "idle"]
    /\ m = [w \in Writers |-> 0]
    /\ tailN = [w \in Writers |-> 0]
    /\ newBlock = [w \in Writers |-> ZeroBlock]
    /\ valid = [w \in Writers |-> FALSE]
    /\ newBlocks = [w \in Writers |-> NilSlice]
    /\ replaced = [w \in Writers |-> FALSE]
    /\ resp = [w \in Writers |-> NoResp]
    /\ nreq = 0
    /\ reader = ReaderIdle
    /\ sent = <<>>
    /\ \E p \in FnPrevs : fn = FnState("start", p, ZeroBlock, ZeroBlock, FALSE, "")

\* newBlock, _ := GenerateBlock(prev, d)
FnGenerateBlock ==
    /\ fn.pc = "start"
    /\ \E d \in FnInts, t \in 0..MaxTime :
          fn' = [fn EXCEPT !.pc = "generated", !.data = d,
                           !.block = GenerateBlock(fn.prev, d, t)]
    /\ UNCHANGED mainvars

\* ValidateBlock(prev, newBlock), on the block as generated
FnValidateBlock ==
    /\ fn.pc = "generated"
    /\ fn' = [fn EXCEPT !.pc = "validated", !.ok = ValidateBlock(fn.prev, fn.block)]
    /\ UNCHANGED mainvars

\* one of Data, PrevHash, Index of a block that validated is given another
\* value; the stored Hash stays
FnTamper ==
    /\ fn.pc = "validated"
    /\ fn.ok
    /\ \/ \E d \in FnInts \ {fn.block.Data} :
              fn' = [fn EXCEPT !.pc = "tampered", !.orig = fn.block,
                               !.field = "Data", !.block.Data = d]
       \/ \E h \in FnHashes \ {fn.block.PrevHash} :
              fn' = [fn EXCEPT !.pc = "tampered", !.orig = fn.block,
                               !.field = "PrevHash", !.block.PrevHash = h]
       \/ \E i \in FnInts \ {fn.block.Index} :
              fn' = [fn EXCEPT !.pc = "tampered", !.orig = fn.block,
                               !.field = "Index", !.block.Index = i]
    /\ UNCHANGED mainvars

\* ValidateBlock(prev, newBlock), on the changed block
FnRevalidateBlock ==
    /\ fn.pc = "tampered"
    /\ fn' = [fn EXCEPT !.pc = "revalidated", !.ok = ValidateBlock(fn.prev, fn.block)]
    /\ UNCHANGED mainvars

\* GenerateHash called on a block and on the same block with another value
\* in its Hash field (kept in orig)
FnGenerateHash ==
    /\ fn.pc = "validated"
    /\ \E h \in FnHashes \ {fn.block.Hash} :
          LET other == [fn.block EXCEPT !.Hash = h]
          IN  fn' = [fn EXCEPT !.pc = "hashed", !.orig = other, !.field = "Hash",
                               !.digest = GenerateHash(fn.block),
                               !.digest2 = GenerateHash(other)]
    /\ UNCHANGED mainvars

NextFn ==
    \/ FnGenerateBlock
    \/ FnValidateBlock
    \/ FnGenerateHash
    \/ FnTamper
    \/ FnRevalidateBlock

SpecFn == InitFn /\ [][NextFn]_vars

\* ------------------------------------------------------------- the claims
\* C1: under any interleaving of write requests the chain never holds two
\* blocks with the same Index.
C1_UniqueIndex ==
    \A i, j \in 1..Blockchain.len : i # j => Chain[i].Index # Chain[j].Index

\* C2: every non-genesis block B of the chain, with P the block before it,
\* has B.Index = P.Index + 1, B.PrevHash = P.Hash and B.Hash = GenerateHash(B).
C2_Linked ==
    \A i \in 2..Blockchain.len :
        /\ Chain[i].Index = Inc(Chain[i - 1].Index)
        /\ Chain[i].PrevHash = Chain[i - 1].Hash
        /\ Chain[i].Hash = GenerateHash(Chain[i])

\* C3: the length of the chain never decreases.
C3_NeverShrinks == [][Blockchain'.len >= Blockchain.len]_vars

\* C4: the chain is append-only and its blocks immutable: a block at position
\* i stays at position i, with all its fields, in every later state.
C4_AppendOnly ==
    [][\A i \in 1..Blockchain.len :
          i <= Blockchain'.len /\ Chain'[i] = Chain[i]]_vars

\* C5: for every predecessor P and payload d, ValidateBlock(P, B) is true of
\* the block B that GenerateBlock(P, d) returned.
C5_GeneratedValidates == fn.pc = "validated" => fn.ok

C5_Witness ==
    /\ fn.pc = "validated"
    /\ fn.ok
    /\ fn.prev.Index = IntMax
    /\ fn.prev.Hash # <<>>
    /\ fn.block.Data = -1

\* C6: changing exactly one of Data, PrevHash, Index of a block that
\* validated, to any other value, makes ValidateBlock return false.
C6_TamperDetected == fn.pc = "revalidated" => ~fn.ok

\* C7: ReplaceChain(c) with len(c) at most the length of Blockchain that its
\* comparison reads leaves Blockchain as it is, length and blocks, and returns.
C7_ReplaceNoOp ==
    [][\A w \in Writers :
          (/\ pc[w] = "replace_len"
           /\ pc'[w] # "replace_len"
           /\ newBlocks[w].len <= Blockchain.len)
          => (/\ Blockchain' = Blockchain
              /\ Chain' = Chain
              /\ pc'[w] = "respond"
              /\ ~replaced'[w])]_vars

\* a ReplaceChain whose candidate is exactly as long as the chain has returned
\* without assigning
C7_Witness ==
    \E w \in Writers :
        /\ pc[w] = "respond"
        /\ valid[w]
        /\ ~replaced[w]
        /\ newBlocks[w].len = Blockchain.len
        /\ newBlocks[w] # Blockchain

GenesisInChain ==
    /\ (Blockchain.len = 0) <=> (gpc # "done")
    /\ Blockchain.len > 0 =>
          /\ Chain[1] = genesisBlock
          /\ Chain[1].Index = 0
          /\ Chain[1].PrevHash = <<>>
          /\ Chain[1].Data = 0
    /\ \A i \in 2..Blockchain.len : Chain[i].Index # 0

GenesisStays ==
    Blockchain.len > 0 => (Blockchain'.len > 0 /\ Chain'[1] = Chain[1])

C9_GenesisOnce == [](GenesisInChain) /\ [][GenesisStays]_vars

\* the genesis block heads a chain that has been extended and replaced
C9_Witness ==
    /\ gpc = "done"
    /\ Blockchain.len >= 3
    /\ Chain[1] = genesisBlock
    /\ Chain[1].Index = 0
    /\ \E w \in Writers : resp[w].status = 201 /\ resp[w].replaced

\* C10: no write request aborts: whenever WriteBlockchain runs the chain is
\* not empty, and reading its tail never fails with an index out of range.
C10_NoAbort ==
    \A w \in Writers :
        /\ pc[w] # "idle" => Blockchain.len > 0
        /\ resp[w].status # 0

\* C11: the only block of the chain whose PrevHash is empty is the genesis
\* block; every other block's PrevHash is the non-empty digest of the block
\* before it.
C11_EmptyPrevHashOnlyGenesis ==
    \A i \in 1..Blockchain.len :
        /\ Chain[i].PrevHash = <<>> => (i = 1 /\ Chain[i].Index = 0)
        /\ i > 1 => (Chain[i].PrevHash # <<>> /\ Chain[i].PrevHash = Chain[i - 1].Hash)

\* C12: ValidateBlock(P, B) is true exactly when B.Index = P.Index + 1,
\* B.PrevHash = P.Hash and GenerateHash(B) = B.Hash, and a call changes neither
\* P, nor B, nor Blockchain.
C12_ValidateIff ==
    [][(fn.pc \in {"generated", "tampered"} /\ fn'.pc \in {"validated", "revalidated"})
       => (/\ fn'.ok <=> (/\ fn.block.Index = Inc(fn.prev.Index)
                          /\ fn.block.PrevHash = fn.prev.Hash
                          /\ GenerateHash(fn.block) = fn.block.Hash)
           /\ fn'.prev = fn.prev
           /\ fn'.block = fn.block
           /\ UNCHANGED mainvars)]_vars

\* a block whose index and link are right and whose stored hash is not has
\* been refused
C12_Witness ==
    /\ fn.pc = "revalidated"
    /\ ~fn.ok
    /\ fn.field = "Data"
    /\ fn.block.Index = Inc(fn.prev.Index)
    /\ fn.block.PrevHash = fn.prev.Hash

\* C13: GenerateHash depends on Index, Timestamp, Data and PrevHash only: a
\* block and the same block with another Hash field get the same digest, which
\* is the digest stamped on the block when its Hash field was still empty;
\* the call changes no state.
C13_HashOfLinkageFields ==
    fn.pc = "hashed" =>
        /\ fn.digest = fn.digest2
        /\ fn.digest = fn.block.Hash
        /\ Blockchain = NilSlice /\ heap = <<>>

C13_Witness ==
    /\ fn.pc = "hashed"
    /\ fn.orig.Hash # fn.block.Hash
    /\ [fn.orig EXCEPT !.Hash = fn.block.Hash] = fn.block
    /\ fn.digest2 # <<>>
    /\ fn.block.Data = -1

\* C17: GenerateBlock(prev, d) returns a block with Index = prev.Index + 1,
\* Data = d, PrevHash = prev.Hash and Hash = GenerateHash of that block, and
\* changes neither prev nor Blockchain.
C17_GenerateBlockFields ==
    [][(fn.pc = "start" /\ fn'.pc = "generated")
       => (/\ fn'.block.Index = Inc(fn.prev.Index)
           /\ fn'.block.Data = fn'.data
           /\ fn'.block.PrevHash = fn.prev.Hash
           /\ fn'.block.Hash = GenerateHash(fn'.block)
           /\ fn'.prev = fn.prev
           /\ UNCHANGED mainvars)]_vars

C17_Witness ==
    /\ fn.pc = "generated"
    /\ fn.data = 100
    /\ fn.prev.Index = 0
    /\ fn.prev.Hash # <<>>
    /\ fn.block.Index = 1
    /\ fn.block.Data = 100

\* C16: ReplaceChain(c) sets Blockchain to exactly c whenever c is longer than
\* the chain its comparison reads, whatever the links of c are.
C16_LongerInstalled ==
    [][\A w \in Writers :
          /\ (/\ pc[w] = "replace_len"
              /\ pc'[w] # "replace_len"
              /\ newBlocks[w].len > Blockchain.len)
             => (pc'[w] = "replace_set" /\ newBlocks'[w] = newBlocks[w])
          /\ (pc[w] = "replace_set" /\ pc'[w] # "replace_set")
             => (/\ Blockchain' = newBlocks[w]
                 /\ Chain' = ChainOf(newBlocks[w])
                 /\ replaced'[w])]_vars

\* a candidate with a broken Index link has just been installed
C16_Witness ==
    \E w \in Writers :
        /\ pc[w] = "respond"
        /\ replaced[w]
        /\ Blockchain = newBlocks[w]
        /\ \E i \in 2..Blockchain.len : Chain[i].Index # Inc(Chain[i - 1].Index)

\* C18: a write request answered Created with block b installed b: at the
\* moment of the response b is a block of the chain.
C18_CreatedMeansInstalled ==
    \A w \in Writers :
        pc[w] = "respond" =>
            /\ replaced[w]
            /\ \E i \in 1..Blockchain.len : Chain[i] = newBlock[w]

\* C14: with the write requests served one at a time from the genesis-only
\* chain, each well-formed request adds exactly one block, last, with Index
\* the previous length, Data its payload and PrevHash the previous tail's
\* Hash: after k requests the chain has k+1 blocks, the payloads in order.
C14_SequentialAppend ==
    /\ \A w \in Writers :
          /\ pc[w] \in {"tail_idx", "val_idx"} => ~OutOfRange(tailN[w])
          /\ resp[w].status \in {-1, 201, 400}
          /\ resp[w].status = 201 => (resp[w].valid /\ resp[w].replaced)
          /\ pc[w] # "idle" =>
                Blockchain.len = IF replaced[w] THEN Len(sent) + 1 ELSE Len(sent)
    /\ (gpc = "done" /\ AllIdle) => Blockchain.len = Len(sent) + 1
    /\ \A i \in 2..Blockchain.len :
          /\ Chain[i].Index = i - 1
          /\ Chain[i].Data = sent[i - 1]
          /\ Chain[i].PrevHash = Chain[i - 1].Hash

C14_Witness ==
    /\ AllIdle
    /\ Len(sent) = 3
    /\ sent[1] = 100 /\ sent[2] = -1 /\ sent[3] = 7
    /\ Blockchain.len = 4
    /\ Chain[2].Data = 100 /\ Chain[3].Data = -1 /\ Chain[4].Data = 7
    /\ Chain[4].Index = 3

\* C15: a GET served while writes run returns the chain as it was at one
\* moment: no cell that was never written, and no block that the chain later
\* shows differently at its position.
C15_ReadIsSnapshot ==
    reader.pc = "done" =>
        \A i \in 1..Len(reader.got) :
            /\ reader.got[i] # ZeroBlock
            /\ i <= Blockchain.len => Chain[i] = reader.got[i]

\* C19: a GET request, and a write request whose body does not decode, leave
\* Blockchain as it is; the latter is answered 400 and no block is generated
\* or validated for it.
C19_ReadAndBadRequestFrame ==
    [][/\ reader' # reader =>
            /\ Blockchain' = Blockchain
            /\ Chain' = Chain
            /\ UNCHANGED <<now, pc, wlocals, resp, nreq>>
       /\ (nreq' # nreq /\ pc' = pc) =>
            /\ Blockchain' = Blockchain
            /\ heap' = heap
            /\ UNCHANGED <<now, wlocals>>
            /\ \E w \in Writers :
                  resp' = [resp EXCEPT ![w] =
                              [status |-> 400, block |-> ZeroBlock,
                               valid |-> FALSE, replaced |-> FALSE]]]_vars

C19_Witness ==
    /\ reader.pc = "done"
    /\ Len(reader.got) = 2
    /\ Blockchain.len = 2
    /\ Chain = reader.got
    /\ \E w \in Writers : resp[w].status = 400

====
